---- MODULE Spec2Model ----
(***************************************************************************)
(* labourcan/data_processing.py: month-over-month percentage change per    *)
(* group, centered rank of the change within each (YEAR, MONTH) partition, *)
(* and binning of the change into a data-derived ordered categorical.      *)
(*                                                                         *)
(* A table is a sequence of rows, a row a record of cells.  Every cell is  *)
(* a tuple so that a null cell compares with any other cell: the null cell *)
(* is <<>>, a string or integer cell is <<x>>, a Float64 cell is <<n, d>>. *)
(* A Float64 <<n, d>> with d > 0 is the number n/d; d = 0 gives the IEEE   *)
(* specials +inf (n > 0), -inf (n < 0) and NaN (n = 0).  Arithmetic is     *)
(* exact on these fractions: rounding of the binary format is not          *)
(* modelled.                                                               *)
(***************************************************************************)
EXTENDS Integers, Sequences, FiniteSets, TLC

VARIABLES pc, df, col, cuts, out, order, df2, out2

vars == <<pc, df, col, cuts, out, order, df2, out2>>

\* ------------------------------------------------------------------ bounds

\* VALUE cells of the loaded table range over null and 0..MaxValue.
MaxValue == 2
\* Largest number of rows of a loaded table.
MaxRows == 4
\* Largest length of a column handed directly to centered_rank_expr.
MaxCol == 5
\* Largest number of rows of a frame handed directly to cut_pdiff.
MaxFrame == 3

\* ------------------------------------------------------------------- cells

NULL == <<>>

Zero == <<0, 1>>

\* Position of a Float64 in polars' total order of floats:
\* -inf < finite numbers < +inf < NaN.
FClass(x) == IF x[2] > 0 THEN 1 ELSE IF x[1] < 0 THEN 0 ELSE IF x[1] > 0 THEN 2 ELSE 3

\* a < b on Float64 (polars compares floats in a total order where NaN is
\* the greatest value and equal to itself).
FLt(a, b) ==
    \/ FClass(a) < FClass(b)
    \/ FClass(a) = 1 /\ FClass(b) = 1 /\ a[1] * b[2] < b[1] * a[2]

\* a == b on Float64.
FEq(a, b) ==
    /\ FClass(a) = FClass(b)
    /\ FClass(a) = 1 => a[1] * b[2] = b[1] * a[2]

Sgn(n) == IF n < 0 THEN -1 ELSE IF n > 0 THEN 1 ELSE 0

Abs(n) == IF n < 0 THEN -n ELSE n

\* a - b: null when an operand is null.  The operands are VALUE cells,
\* always finite.
FSub(a, b) ==
    IF a = NULL \/ b = NULL THEN NULL
    ELSE <<a[1] * b[2] - b[1] * a[2], a[2] * b[2]>>

\* a / b: null when an operand is null; Float64 division otherwise, so a
\* zero divisor gives +inf, -inf or NaN (0/0).
FDiv(a, b) ==
    IF a = NULL \/ b = NULL THEN NULL
    ELSE IF b[1] = 0 THEN <<Sgn(a[1]), 0>>
    ELSE <<a[1] * b[2] * Sgn(b[1]), a[2] * Abs(b[1])>>

\* ------------------------------------------------------------ loaded table

\* The Industry column; its order is the order of the strings.
IndustryOrder == <<"Construction">>

GeoOrder == <<"Canada">>

\* (YEAR, MONTH) of the periods, in chronological order.
Periods == <<<<2024, 11>>, <<2024, 12>>, <<2025, 1>>>>

Range(s) == {s[i] : i \in 1..Len(s)}

IndustryCells == {NULL} \cup {<<i>> : i \in Range(IndustryOrder)}

ValueCells == {NULL} \cup {<<v, 1>> : v \in 0..MaxValue}

\* (Industry, period) keys in the order read_labourcan leaves the rows in:
\* sorted by YEAR and MONTH.
KeySeq ==
    LET inds == <<NULL>> \o [i \in 1..Len(IndustryOrder) |-> <<IndustryOrder[i]>>]
        n == Len(inds)
    IN [k \in 1..(Len(Periods) * n) |->
          <<inds[((k - 1) % n) + 1], Periods[((k - 1) \div n) + 1]>>]

Observation(key, value) ==
    [Industry |-> key[1], GEO |-> <<"Canada">>,
     DATE_YMD |-> <<key[2][1], key[2][2], 1>>,
     YEAR |-> <<key[2][1]>>, MONTH |-> <<key[2][2]>>, VALUE |-> value]

Reverse(s) == [i \in 1..Len(s) |-> s[Len(s) + 1 - i]]

\* The rows of the keys ks with the values t, in loader order.
LoaderRows(ks, t) ==
    LET seq == SelectSeq(KeySeq, LAMBDA k : k \in ks)
    IN [i \in 1..Len(seq) |-> Observation(seq[i], t[seq[i]])]

\* Key sets of at most MaxRows rows: (group, period) is unique in a table.
KeySets == {ks \in SUBSET Range(KeySeq) : Cardinality(ks) <= MaxRows}

\* ------------------------------------------------------------------ polars

\* Order of the strings of a column.
StrOrd(s) ==
    LET all == IndustryOrder \o GeoOrder
    IN CHOOSE i \in 1..Len(all) : all[i] = s

\* a sorts strictly before b in column c (nulls first, NaN last).
CellLt(c, a, b) ==
    IF a = NULL THEN b # NULL
    ELSE IF b = NULL THEN FALSE
    ELSE IF c \in {"Industry", "GEO"} THEN StrOrd(a[1]) < StrOrd(b[1])
    ELSE IF c \in {"YEAR", "MONTH"} THEN a[1] < b[1]
    ELSE FLt(a, b)

CellEq(c, a, b) ==
    IF a = NULL \/ b = NULL THEN a = b
    ELSE IF c \in {"Industry", "GEO", "YEAR", "MONTH"} THEN a = b
    ELSE FEq(a, b)

\* Row r sorts strictly before row s on the columns by, in that priority.
RECURSIVE RowLt(_, _, _)
RowLt(by, r, s) ==
    IF by = <<>> THEN FALSE
    ELSE LET c == Head(by)
         IN \/ CellLt(c, r[c], s[c])
            \/ CellEq(c, r[c], s[c]) /\ RowLt(Tail(by), r, s)

RemoveAt(s, i) == SubSeq(s, 1, i - 1) \o SubSeq(s, i + 1, Len(s))

\* The rows of t in ascending order on by, rows that tie kept in the order
\* they have in t.
RECURSIVE InsertRow(_, _, _)
InsertRow(r, s, by) ==
    IF s = <<>> THEN <<r>>
    ELSE IF RowLt(by, s[Len(s)], r) \/ ~RowLt(by, r, s[Len(s)]) THEN Append(s, r)
    ELSE Append(InsertRow(r, SubSeq(s, 1, Len(s) - 1), by), s[Len(s)])

RECURSIVE StableSort(_, _)
StableSort(t, by) ==
    IF t = <<>> THEN <<>>
    ELSE InsertRow(t[Len(t)], StableSort(SubSeq(t, 1, Len(t) - 1), by), by)

\* Every arrangement of the rows of t that is ascending on by.
RECURSIVE Arrangements(_, _)
Arrangements(t, by) ==
    IF t = <<>> THEN {<<>>}
    ELSE UNION {
           {<<t[i]>> \o rest : rest \in Arrangements(RemoveAt(t, i), by)} :
             i \in {i \in 1..Len(t) : \A j \in 1..Len(t) : ~RowLt(by, t[j], t[i])}}

\* The arrangements of the stably sorted rows s: s alone when no two
\* neighbours tie on by.
SortOutcomes(s, by) ==
    IF \A i \in 1..(Len(s) - 1) : RowLt(by, s[i], s[i + 1])
    THEN {s}
    ELSE Arrangements(s, by)

\* DataFrame.sort(by).  The sort is not stable (maintain_order defaults to
\* False): rows that tie on by may come out in any order, and when no two
\* rows tie there is one outcome.
sort(t, by) == SortOutcomes(StableSort(t, by), by)

\* The rows of t agree on the columns by.
SameKeys(by, r, s) == \A i \in 1..Len(by) : r[by[i]] = s[by[i]]

\* expr.over(by) evaluates expr on each partition of t (the rows sharing
\* their by columns, in table order) and puts the results back on the rows.
\* The partition of row i:
OverPartition(t, by, i) == SelectSeq(t, LAMBDA r : SameKeys(by, r, t[i]))

\* The place of row i in its partition.
OverIndex(t, by, i) == Cardinality({j \in 1..i : SameKeys(by, t[j], t[i])})

\* with_columns(name = vals): the table with one more (or replaced) column.
WithColumn(t, name, vals) ==
    SubSeq([i \in 1..Len(t) |-> (name :> vals[i]) @@ t[i]], 1, Len(t))

Column(t, name) == [i \in 1..Len(t) |-> t[i][name]]

\* ---------------------------------------- calculate_monthly_percent_change

\* pl.col("VALUE").shift(1) on one partition.
ShiftValue(part) ==
    [k \in 1..Len(part) |-> IF k = 1 THEN NULL ELSE part[k - 1].VALUE]

DefaultGroupBy == <<"Industry", "GEO">>

\* LAGGED_VALUE = pl.col("VALUE").shift(1).over(group_by) on the sorted table.
WithLaggedValue(sorted, group_by) ==
    WithColumn(sorted, "LAGGED_VALUE",
      [i \in 1..Len(sorted) |->
         ShiftValue(OverPartition(sorted, group_by, i))[OverIndex(sorted, group_by, i)]])

\* DIFF = VALUE - LAGGED_VALUE.
WithDiff(lagged) ==
    WithColumn(lagged, "DIFF",
      [i \in 1..Len(lagged) |-> FSub(lagged[i].VALUE, lagged[i].LAGGED_VALUE)])

\* PDIFF = DIFF / LAGGED_VALUE.
WithPdiff(diff) ==
    WithColumn(diff, "PDIFF",
      [i \in 1..Len(diff) |-> FDiv(diff[i].DIFF, diff[i].LAGGED_VALUE)])

\* The lag taken down the whole sorted table, not within each group.
calculate_monthly_percent_change_no_over(t, group_by) ==
    LET sort_cols == group_by \o <<"YEAR", "MONTH">>
    IN CHOOSE s \in sort(WithPdiff(WithDiff(WithLaggedValue(
                        CHOOSE s0 \in sort(t, sort_cols) : TRUE, <<>>))),
                      sort_cols \o <<"PDIFF">>) : TRUE

\* (group, period) is unique in a table, so each of the two sorts has one
\* outcome.
calculate_monthly_percent_change(t, group_by) ==
    LET sort_cols == group_by \o <<"YEAR", "MONTH">>
    IN CHOOSE s \in sort(WithPdiff(WithDiff(WithLaggedValue(
                        CHOOSE s0 \in sort(t, sort_cols) : TRUE, group_by))),
                      sort_cols \o <<"PDIFF">>) : TRUE

\* ------------------------------------------------------ centered_rank_expr

\* col.rank(method="ordinal", descending=...): a null has no rank; the others
\* are numbered 1, 2, ... in sorted order, ties in order of appearance.
rank(c, descending) ==
    [i \in 1..Len(c) |->
       IF c[i] = NULL THEN NULL
       ELSE <<1 + Cardinality({j \in 1..Len(c) :
                 /\ c[j] # NULL
                 /\ \/ IF descending THEN FLt(c[i], c[j]) ELSE FLt(c[j], c[i])
                    \/ FEq(c[j], c[i]) /\ j < i})>>]

\* (col > 0).sum() and (col < 0).sum(): nulls are not counted.
SumGtZero(c) == Cardinality({j \in 1..Len(c) : c[j] # NULL /\ FLt(Zero, c[j])})

SumLtZero(c) == Cardinality({j \in 1..Len(c) : c[j] # NULL /\ FLt(c[j], Zero)})

\* The negative branch ranked ascending (descending=True left out).
centered_rank_expr_ascending(c) ==
    [i \in 1..Len(c) |->
       IF c[i] # NULL /\ FLt(c[i], Zero)
         THEN <<(rank(c, FALSE)[i][1] * (-1)) + SumGtZero(c)>>
       ELSE IF c[i] # NULL /\ FEq(c[i], Zero)
         THEN <<0>>
       ELSE IF c[i] # NULL /\ FLt(Zero, c[i])
         THEN <<rank(c, FALSE)[i][1] - SumLtZero(c)>>
       ELSE NULL]

\* The ranks are UInt32 and the sums UInt32; the negative branch is widened
\* to Int64 by the factor -1, and the positive branch never goes below 1 on
\* the rows it is selected for, so no selected value wraps.
centered_rank_expr(c) ==
    [i \in 1..Len(c) |->
       IF c[i] # NULL /\ FLt(c[i], Zero)
         THEN <<(rank(c, TRUE)[i][1] * (-1)) + SumGtZero(c)>>
       ELSE IF c[i] # NULL /\ FEq(c[i], Zero)
         THEN <<0>>
       ELSE IF c[i] # NULL /\ FLt(Zero, c[i])
         THEN <<rank(c, FALSE)[i][1] - SumLtZero(c)>>
       ELSE NULL]

CenteredRankOfPartition(part) == centered_rank_expr(Column(part, "PDIFF"))

\* centered_rank_across_industry = centered_rank_expr(PDIFF).over(by).
WithCenteredRank(intermediate, by) ==
    WithColumn(intermediate, "centered_rank_across_industry",
      [i \in 1..Len(intermediate) |->
         CenteredRankOfPartition(OverPartition(intermediate, by, i))
           [OverIndex(intermediate, by, i)]])

\* The rank taken over the whole column (.over(["YEAR", "MONTH"]) left out).
calculate_centered_rank_no_over(t) ==
    WithCenteredRank(calculate_monthly_percent_change(t, DefaultGroupBy), <<>>)

calculate_centered_rank(t) ==
    WithCenteredRank(calculate_monthly_percent_change(t, DefaultGroupBy),
                     <<"YEAR", "MONTH">>)

\* --------------------------------------------------------------- cut_pdiff

DEFAULT_CUTS ==
    <<<<-50, 1000>>, <<-25, 1000>>, <<-12, 1000>>, <<-8, 1000>>, <<-4, 1000>>,
      <<0, 1000>>,
      <<4, 1000>>, <<8, 1000>>, <<12, 1000>>, <<25, 1000>>, <<50, 1000>>>>

NegInf == <<-1, 0>>

PosInf == <<1, 0>>

IsNaN(x) == x[1] = 0 /\ x[2] = 0

\* The label "(lo, hi]" of the k-th interval, k in 0..Len(breaks).
IntervalLabel(breaks, k) ==
    <<"(", IF k = 0 THEN NegInf ELSE breaks[k],
           IF k = Len(breaks) THEN PosInf ELSE breaks[k + 1], "]">>

\* Series.cut(breaks, left_closed=True): intervals [lo, hi).
cut_left_closed(v, breaks) ==
    IF v = NULL \/ IsNaN(v) THEN NULL
    ELSE IntervalLabel(breaks,
           Cardinality({k \in 1..Len(breaks) : FLt(breaks[k], v) \/ FEq(breaks[k], v)}))

\* Series.cut(breaks) with left_closed at its default False: a value goes
\* to the interval numbered by the count of breaks strictly below it; null
\* and NaN get no label.
cut(v, breaks) ==
    IF v = NULL \/ IsNaN(v) THEN NULL
    ELSE IntervalLabel(breaks,
           Cardinality({k \in 1..Len(breaks) : FLt(breaks[k], v)}))

ZeroLabel == <<"0">>

\* Lines 253-264: the interval label, overridden by "0" where PDIFF == 0.
LabelOf(v, breaks) ==
    IF v # NULL /\ FEq(v, Zero) THEN ZeroLabel ELSE cut(v, breaks)

\* DataFrame.drop_nulls(): the rows with no null in any column.
drop_nulls(t) == SelectSeq(t, LAMBDA r : \A c \in DOMAIN r : r[c] # NULL)

\* unique(maintain_order=True): first occurrences, in order.
RECURSIVE unique(_)
unique(s) ==
    IF s = <<>> THEN <<>>
    ELSE LET init == unique(SubSeq(s, 1, Len(s) - 1))
             x == s[Len(s)]
         IN IF x \in Range(init) THEN init ELSE Append(init, x)

\* cast(pl.Enum(order)) is strict: it raises on a label that is not one of
\* the categories.
CastRaises(t, ord) ==
    \E i \in 1..Len(t) :
      t[i].PDIFF_BINNED # NULL /\ t[i].PDIFF_BINNED \notin Range(ord)

\* Both sorts by PDIFF left out: the order follows the rows as given.
cut_pdiff_unsorted(t, breaks) ==
    LET labelled == WithColumn(t, "PDIFF_BINNED",
                      [i \in 1..Len(t) |-> LabelOf(t[i].PDIFF, breaks)])
        ord == unique(Column(drop_nulls(labelled), "PDIFF_BINNED"))
    IN {[out |-> labelled, order |-> ord, raises |-> CastRaises(labelled, ord)]}

\* The outcomes of cut_pdiff(t, breaks): the labelled table sorted by PDIFF,
\* the derived order, and whether the final cast raises.
cut_pdiff(t, breaks) ==
    LET labelled == WithColumn(t, "PDIFF_BINNED",
                      [i \in 1..Len(t) |-> LabelOf(t[i].PDIFF, breaks)])
    IN UNION {
         {[out |-> o,
           order |-> unique(Column(s, "PDIFF_BINNED")),
           raises |-> CastRaises(o, unique(Column(s, "PDIFF_BINNED")))] :
            s \in sort(drop_nulls(o), <<"PDIFF">>)} :
         o \in sort(labelled, <<"PDIFF">>)}

\* ------------------------------------------------------------------ inputs

\* PDIFF values of the columns handed directly to centered_rank_expr.
ColumnCells ==
    {NULL, <<-5, 100>>, <<-2, 100>>, <<0, 100>>, <<1, 100>>, <<3, 100>>}

RECURSIVE SeqsUpTo(_, _)
SeqsUpTo(S, n) ==
    IF n = 0 THEN {<<>>}
    ELSE LET shorter == SeqsUpTo(S, n - 1)
         IN shorter \cup {Append(s, x) : s \in {s \in shorter : Len(s) = n - 1}, x \in S}

\* Rows of the frames handed directly to cut_pdiff.
FrameCells ==
    {NULL, <<-5, 100>>, <<-1, 100>>, <<0, 100>>, <<2, 100>>, <<5, 100>>}

FrameRows == {[Industry |-> i, PDIFF |-> p] : i \in IndustryCells, p \in FrameCells}

\* Cut sequences handed to cut_pdiff: the default, one with 0 among the
\* cuts and one without.
CutChoices ==
    {DEFAULT_CUTS,
     <<<<-5, 100>>, <<0, 100>>, <<5, 100>>>>,
     <<<<-5, 100>>, <<5, 100>>>>}

\* ----------------------------------------------------------------- actions

Blank ==
    /\ col = <<>>
    /\ cuts = <<>>
    /\ out = <<>>
    /\ order = <<>>
    /\ df2 = <<>>
    /\ out2 = <<>>

\* A table from read_labourcan, in loader order or the reverse of it.
InitLoaded ==
    /\ pc = "loaded"
    /\ \E ks \in KeySets : \E t \in [ks -> ValueCells] :
         df \in {LoaderRows(ks, t), Reverse(LoaderRows(ks, t))}
    /\ Blank

\* A column for a direct use of centered_rank_expr.
InitColumn ==
    /\ pc = "column"
    /\ df = <<>>
    /\ cuts = <<>>
    /\ out = <<>>
    /\ order = <<>>
    /\ df2 = <<>>
    /\ out2 = <<>>
    /\ col \in SeqsUpTo(ColumnCells, MaxCol)

\* A frame for a direct call of cut_pdiff.
InitFrame ==
    /\ pc = "frame"
    /\ df \in SeqsUpTo(FrameRows, MaxFrame)
    /\ Blank

Init == InitLoaded \/ InitColumn \/ InitFrame

\* main(): the loaded table through calculate_monthly_percent_change.
Main ==
    /\ pc = "loaded"
    /\ out' = calculate_monthly_percent_change(df, DefaultGroupBy)
    /\ pc' = "pdiff"
    /\ UNCHANGED <<df, col, cuts, order, df2, out2>>

CalculateCenteredRank ==
    /\ pc = "loaded"
    /\ out' = calculate_centered_rank(df)
    /\ pc' = "ranked"
    /\ UNCHANGED <<df, col, cuts, order, df2, out2>>

\* df.with_columns(centered_rank=centered_rank_expr(pl.col("values")))
CenteredRankExpr ==
    /\ pc = "column"
    /\ out' = centered_rank_expr(col)
    /\ pc' = "expr"
    /\ UNCHANGED <<df, col, cuts, order, df2, out2>>

\* cut_pdiff(df, cuts) on a frame, and cut_pdiff(df) with the default cuts
\* on the table of calculate_centered_rank.  When the cast raises, out keeps
\* the labelled table the cast was applied to.
CutPdiff ==
    /\ pc \in {"frame", "ranked"}
    /\ \E breaks \in (IF pc = "frame" THEN CutChoices ELSE {DEFAULT_CUTS}) :
         \E r \in cut_pdiff(IF pc = "frame" THEN df ELSE out, breaks) :
           /\ cuts' = breaks
           /\ out' = r.out
           /\ order' = r.order
           /\ pc' = IF r.raises THEN "raised" ELSE "binned"
    /\ UNCHANGED <<df, col, df2, out2>>

Next == Main \/ CalculateCenteredRank \/ CenteredRankExpr \/ CutPdiff

Spec == Init /\ [][Next]_vars

\* Two loaded tables with the same rows that differ in the VALUE of one row.
\* Each unordered pair of tables is taken once (df2 holds the null or the
\* smaller number), since the two tables play the same part.
InitPair ==
    /\ pc = "pair"
    /\ \E ks \in KeySets : \E t \in [ks -> ValueCells] :
         \E k \in {k \in ks : t[k] # NULL} :
           \E v \in {NULL} \cup {<<n, 1>> : n \in 0..(t[k][1] - 1)} :
           /\ df = LoaderRows(ks, t)
           /\ df2 = LoaderRows(ks, [t EXCEPT ![k] = v])
    /\ col = <<>>
    /\ cuts = <<>>
    /\ out = <<>>
    /\ order = <<>>
    /\ out2 = <<>>

\* calculate_centered_rank on each of the two tables.
CalculateCenteredRankPair ==
    /\ pc = "pair"
    /\ out' = calculate_centered_rank(df)
    /\ out2' = calculate_centered_rank(df2)
    /\ pc' = "ranked_pair"
    /\ UNCHANGED <<df, col, cuts, order, df2>>

NextPair == CalculateCenteredRankPair

SpecPair == InitPair /\ [][NextPair]_vars

\* ------------------------------------------------------------------ claims

RankCol == "centered_rank_across_industry"

\* The rows of t of period p, in table order.
PartitionOf(t, p) == SelectSeq(t, LAMBDA r : r.YEAR = <<p[1]>> /\ r.MONTH = <<p[2]>>)

Negative(v) == v # NULL /\ FLt(v, Zero)

Positive(v) == v # NULL /\ FLt(Zero, v)

\* The ranks r of the column c: those of the negative values are exactly
\* -1..-N and those of the positive values exactly 1..P.
RankDense(c, r) ==
    LET neg == {i \in 1..Len(c) : Negative(c[i])}
        pos == {i \in 1..Len(c) : Positive(c[i])}
    IN /\ {r[i] : i \in neg} = {<<-k>> : k \in 1..Cardinality(neg)}
       /\ {r[i] : i \in pos} = {<<k>> : k \in 1..Cardinality(pos)}

\* The column holds nulls and finite numbers only.
AllFinite(c) == \A i \in 1..Len(c) : c[i] = NULL \/ FClass(c[i]) = 1

\* C1: in every period partition of calculate_centered_rank, and in every
\* column ranked by centered_rank_expr, that mixes strictly negative, zero,
\* strictly positive and null values, the ranks of the strictly negative
\* values are exactly {-1, ..., -N} and the ranks of the strictly positive
\* values exactly {1, ..., P}.
C1_RankDensity ==
    /\ pc = "expr" => RankDense(col, out)
    /\ pc = "ranked" =>
         \A p \in Range(Periods) :
           AllFinite(Column(PartitionOf(out, p), "PDIFF")) =>
             RankDense(Column(PartitionOf(out, p), "PDIFF"),
                       Column(PartitionOf(out, p), RankCol))

\* Some row holding the value of row i has the rank n.
ValueHasRank(c, r, i, n) ==
    \E k \in 1..Len(c) : c[k] # NULL /\ FEq(c[k], c[i]) /\ r[k] = <<n>>

\* The negative value closest to zero has rank -1 and the most extreme one
\* -N; the positive value closest to zero has rank 1 and the most extreme P.
ClosestToZeroFirst(c, r) ==
    LET neg == {i \in 1..Len(c) : Negative(c[i])}
        pos == {i \in 1..Len(c) : Positive(c[i])}
    IN /\ \A i \in neg :
            /\ (\A j \in neg : ~FLt(c[i], c[j])) => ValueHasRank(c, r, i, -1)
            /\ (\A j \in neg : ~FLt(c[j], c[i])) => ValueHasRank(c, r, i, -Cardinality(neg))
       /\ \A i \in pos :
            /\ (\A j \in pos : ~FLt(c[j], c[i])) => ValueHasRank(c, r, i, 1)
            /\ (\A j \in pos : ~FLt(c[i], c[j])) => ValueHasRank(c, r, i, Cardinality(pos))

WorkedExample == <<<<-5, 100>>, <<-2, 100>>, <<0, 100>>, <<1, 100>>, <<3, 100>>>>

\* C2: centered_rank_expr ranks outward from zero on both sides, and the
\* column [-0.05, -0.02, 0, 0.01, 0.03] gets the ranks [-2, -1, 0, 1, 2].
C2_WorkedExample ==
    /\ pc = "expr" =>
         /\ ClosestToZeroFirst(col, out)
         /\ col = WorkedExample => out = <<<<-2>>, <<-1>>, <<0>>, <<1>>, <<2>>>>
    /\ pc = "ranked" =>
         \A p \in Range(Periods) :
           AllFinite(Column(PartitionOf(out, p), "PDIFF")) =>
             ClosestToZeroFirst(Column(PartitionOf(out, p), "PDIFF"),
                                Column(PartitionOf(out, p), RankCol))

\* C3: a record of calculate_monthly_percent_change whose LAGGED_VALUE is
\* null or zero has a null PDIFF.
C3_ZeroLagGivesNull ==
    pc \in {"pdiff", "ranked"} =>
      \A i \in 1..Len(out) :
        (out[i].LAGGED_VALUE = NULL \/ FEq(out[i].LAGGED_VALUE, Zero))
          => out[i].PDIFF = NULL

\* cut_pdiff has returned a table (when the cast raises it returns none).
Labelled == pc = "binned"

\* l is the label of an interval between two neighbouring cuts, or of one
\* of the two open-ended intervals.
IsBucket(l) == \E k \in 0..Len(cuts) : l = IntervalLabel(cuts, k)

\* v is a PDIFF that cut_pdiff leaves to the intervals: not null, not NaN
\* and not zero.
Binnable(v) == v # NULL /\ ~IsNaN(v) /\ ~FEq(v, Zero)

\* C4: every non-null, non-zero PDIFF v is labelled with the interval that
\* is closed on the left and open on the right: lo <= v < hi.
C4_LeftClosedBuckets ==
    Labelled =>
      \A i \in 1..Len(out) :
        LET v == out[i].PDIFF
            l == out[i].PDIFF_BINNED
        IN Binnable(v) =>
             /\ l # NULL /\ IsBucket(l)
             /\ l[2] = NegInf \/ ~FLt(v, l[2])
             /\ l[3] = PosInf \/ FLt(v, l[3])

\* C4 as amended: every non-null, non-zero, non-NaN PDIFF v is labelled with
\* the interval that is open on the left and closed on the right,
\* lo < v <= hi, and a NaN PDIFF gets no label.
C4_RightClosedBuckets ==
    Labelled =>
      \A i \in 1..Len(out) :
        LET v == out[i].PDIFF
            l == out[i].PDIFF_BINNED
        IN /\ Binnable(v) =>
                /\ l # NULL /\ IsBucket(l)
                /\ l[2] = NegInf \/ FLt(l[2], v)
                /\ l[3] = PosInf \/ ~FLt(l[3], v)
           /\ (v # NULL /\ IsNaN(v)) => l = NULL

\* C4, witness: a PDIFF equal to a non-zero cut is labelled with the
\* interval that ends at the cut.
C4_Witness ==
    /\ pc = "binned"
    /\ \E i \in 1..Len(out) : \E k \in 1..Len(cuts) :
         /\ out[i].PDIFF # NULL
         /\ ~FEq(cuts[k], Zero)
         /\ FEq(out[i].PDIFF, cuts[k])
         /\ out[i].PDIFF_BINNED = IntervalLabel(cuts, k - 1)

\* r and s are rows of one group.
SameGroup(r, s) == r.Industry = s.Industry /\ r.GEO = s.GEO

\* The period of r is earlier than the period of s.
PeriodLt(r, s) ==
    \/ r.YEAR[1] < s.YEAR[1]
    \/ r.YEAR[1] = s.YEAR[1] /\ r.MONTH[1] < s.MONTH[1]

\* The rows of df of the group of o and of an earlier period.
Earlier(o) == {j \in 1..Len(df) : SameGroup(df[j], o) /\ PeriodLt(df[j], o)}

\* C5: each observation has one record; its LAGGED_VALUE is the VALUE of the
\* latest earlier period of its own group, null when there is none; DIFF and
\* PDIFF are null when VALUE or LAGGED_VALUE is null and computed otherwise.
C5_LagIsPreviousPeriodOfGroup ==
    pc \in {"pdiff", "ranked"} =>
      /\ Len(out) = Len(df)
      /\ \A i \in 1..Len(out) :
           LET o == out[i]
           IN /\ \E j \in 1..Len(df) :
                   /\ SameGroup(df[j], o)
                   /\ df[j].YEAR = o.YEAR /\ df[j].MONTH = o.MONTH
                   /\ df[j].VALUE = o.VALUE
              /\ Earlier(o) = {} => o.LAGGED_VALUE = NULL
              /\ \A j \in Earlier(o) :
                   (\A k \in Earlier(o) : ~PeriodLt(df[j], df[k]))
                     => o.LAGGED_VALUE = df[j].VALUE
              /\ (o.VALUE = NULL \/ o.LAGGED_VALUE = NULL)
                   => (o.DIFF = NULL /\ o.PDIFF = NULL)
              /\ (o.VALUE # NULL /\ o.LAGGED_VALUE # NULL)
                   => (o.DIFF # NULL /\ o.PDIFF # NULL)

\* C5, witness: a table not in chronological order, with two groups, where
\* one group has a null VALUE, then a record with null PDIFF, then a record
\* with a PDIFF.
C5_Witness ==
    /\ pc = "pdiff"
    /\ \E i, j \in 1..Len(df) : i < j /\ PeriodLt(df[j], df[i])
    /\ \E i, j \in 1..Len(out) : ~SameGroup(out[i], out[j])
    /\ \E i \in 1..(Len(out) - 2) :
         /\ SameGroup(out[i], out[i + 1]) /\ SameGroup(out[i], out[i + 2])
         /\ out[i].VALUE = NULL
         /\ out[i + 1].VALUE # NULL /\ out[i + 1].PDIFF = NULL
         /\ out[i + 2].PDIFF # NULL

\* Rank r of the value v: null for null, 0 for zero, and of the sign of v.
SignLaw(c, r) ==
    \A i \in 1..Len(c) :
      IF c[i] = NULL THEN r[i] = NULL
      ELSE IF IsNaN(c[i]) THEN TRUE
      ELSE r[i] # NULL /\ Sgn(r[i][1]) = Sgn(c[i][1])

C7_OrderIsLabelsOfNonNullRows ==
    Labelled =>
      order = unique(Column(
                SelectSeq(out, LAMBDA r : r.PDIFF # NULL /\ r.PDIFF_BINNED # NULL),
                "PDIFF_BINNED"))

\* C9: the cast to the ordered categorical never raises: every non-null label
\* is in the derived order.
C9_CastNeverRaises ==
    /\ pc # "raised"
    /\ pc = "binned" =>
         \A i \in 1..Len(out) :
           out[i].PDIFF_BINNED # NULL => out[i].PDIFF_BINNED \in Range(order)

OrderPos(l) == CHOOSE k \in 1..Len(order) : order[k] = l

\* No record's label comes after the label of a record with a larger PDIFF.
OrderFollowsValues ==
    \A i, j \in 1..Len(out) :
      LET a == out[i].PDIFF
          b == out[j].PDIFF
          la == out[i].PDIFF_BINNED
          lb == out[j].PDIFF_BINNED
      IN (a # NULL /\ b # NULL /\ FLt(a, b) /\ la \in Range(order) /\ lb \in Range(order))
           => OrderPos(la) <= OrderPos(lb)

\* No row has a null outside PDIFF and its label, so drop_nulls keeps every
\* row with a PDIFF.
Complete(t) ==
    \A i \in 1..Len(t) : \A c \in DOMAIN t[i] \ {"PDIFF", "PDIFF_BINNED"} : t[i][c] # NULL

\* C10: for any cuts, with or without 0 among them, the derived order is
\* consistent with the numeric order of the PDIFF values.  (Stated on the
\* tables whose rows all reach the derived order, so that a violation does
\* not rest on the rows drop_nulls removes, see C9.)
C10_OrderFollowsValues == (Labelled /\ Complete(out)) => OrderFollowsValues

HasZeroCut == \E k \in 1..Len(cuts) : FEq(cuts[k], Zero)

\* C10 as amended: when 0 is one of the cuts, the derived order is
\* consistent with the numeric order of the PDIFF values.
C10_OrderFollowsValuesWithZeroCut == (Labelled /\ HasZeroCut) => OrderFollowsValues

\* C10, witness: an order with the label "0" between an earlier and a later
\* label.
C10_Witness ==
    /\ pc = "binned"
    /\ HasZeroCut
    /\ \E k \in 2..(Len(order) - 1) : order[k] = ZeroLabel

\* The table without the rank column.
Unranked(t) ==
    [i \in 1..Len(t) |-> [c \in DOMAIN t[i] \ {RankCol} |-> t[i][c]]]

\* The two tables hold the same records for period p.
AgreeOn(p) == PartitionOf(Unranked(out), p) = PartitionOf(Unranked(out2), p)

\* C8: when two tables agree on the records of a period, the ranks of that
\* period are the same in both, whatever the other periods hold.
C8_RankPartitionIsolation ==
    pc = "ranked_pair" =>
      \A p \in Range(Periods) :
        AgreeOn(p) => PartitionOf(out, p) = PartitionOf(out2, p)

\* C8, witness: two tables that agree on a period with a ranked record and
\* differ in the PDIFF of another period.
C8_Witness ==
    /\ pc = "ranked_pair"
    /\ \E p, q \in Range(Periods) :
         /\ AgreeOn(p)
         /\ \E i \in 1..Len(PartitionOf(out, p)) : PartitionOf(out, p)[i][RankCol] # NULL
         /\ Column(PartitionOf(out, q), "PDIFF") # Column(PartitionOf(out2, q), "PDIFF")
         /\ \E i \in 1..Len(PartitionOf(out, q)) : PartitionOf(out, q)[i].PDIFF # NULL

====
